---- MODULE Spec2Model ----
(***************************************************************************)
(* Two independent components of the repository:                           *)
(*   - Assignment 6/ff.py      : class Graph, Ford-Fulkerson with BFS      *)
(*   - Assignment 5/jku_map.py : class JKUMap, recursive Dijkstra          *)
(* Matrices are functions over 0..n-1, indexed as in the Python source     *)
(* (graph[i][j]).                                                          *)
(***************************************************************************)
EXTENDS Integers, Sequences, FiniteSets, TLC

VARIABLES
    graph,                   \* Graph.graph: original capacities
    residual_graph,          \* Graph.residual_graph
    latest_augmenting_path,  \* Graph.latest_augmenting_path
    current_flow,            \* Graph.current_flow
    source, sink,            \* arguments of the latest ff_step / ford_fulkerson call
    ret,                     \* value returned by the latest call (None before any call)
    phase,                   \* call log summary: "fresh", "stepped", "done_fresh", "done"
    calls,                   \* number of calls made (counted in SpecAnyPair only)
    distances,               \* JKUMap.distances: origin -> vertex -> distance
    paths,                   \* JKUMap.paths: origin -> vertex -> sequence of Steps
    mapPc,                   \* "none", "dijkstra" (inside __init__'s loop), "ready"
    origin,                  \* index in the vertex order of the origin being computed
    cur,                     \* argument cur of the pending _dijkstra call
    visited,                 \* argument visited of the pending _dijkstra call
    answer                   \* the latest query and what it returned

flowVars == <<graph, residual_graph, latest_augmenting_path, current_flow,
              source, sink, ret, phase, calls>>

mapVars == <<distances, paths, mapPc, origin, cur, visited, answer>>

vars == <<flowVars, mapVars>>

None == -1

\* ------------------------------------------------------------------ bounds
MaxCap == 1
MaxEdges == 2
NumVertices == 3
MaxCalls == 2

\* ------------------------------------------------------------------ helpers
ZeroMatrix(M) == [i \in DOMAIN M |-> [j \in DOMAIN M[i] |-> 0]]

RECURSIVE SumOver(_, _)
SumOver(f, S) ==
    IF S = {} THEN 0
    ELSE LET x == CHOOSE y \in S : TRUE IN f[x] + SumOver(f, S \ {x})

\* sum(row) of the Python source
RowSum(M, i) == SumOver(M[i], DOMAIN M[i])

ColSum(M, j) == SumOver([i \in DOMAIN M |-> M[i][j]], DOMAIN M)

SetMin(S) == CHOOSE x \in S : \A y \in S : x <= y

\* ------------------------------------------------------------------ Graph._bfs
\* The parent walk of lines 118-125: marks the cells of the path found.
RECURSIVE MarkPath(_, _, _, _, _)
MarkPath(lap, parents, src, parent, idx) ==
    LET marked == [lap EXCEPT ![parent][idx] = 1] IN
    IF parents[parent] = None
    THEN [marked EXCEPT ![src][idx] = 1]
    ELSE MarkPath(marked, parents, src, parents[parent], parent)

\* The for-loop of line 109 over the row of `vertex`, from column idx on,
\* followed by the rest of the while-loop of line 105.
RECURSIVE BfsScan(_, _, _, _, _, _, _, _)
BfsScan(res, src, snk, vertex, idx, queue, bfs_visited, parents) ==
    IF idx \notin DOMAIN res[vertex]
    THEN IF queue = <<>>
         THEN [found |-> FALSE, lap |-> ZeroMatrix(res)]
         ELSE BfsScan(res, src, snk, Head(queue), 0, Tail(queue), bfs_visited, parents)
    ELSE IF idx \notin bfs_visited /\ res[vertex][idx] # 0
         THEN LET parents2 == [parents EXCEPT ![idx] = vertex] IN
              IF idx = snk
              THEN [found |-> TRUE,
                    lap |-> MarkPath(ZeroMatrix(res), parents2, src, parents2[snk], idx)]
              ELSE BfsScan(res, src, snk, vertex, idx + 1, Append(queue, idx),
                           bfs_visited \cup {idx}, parents2)
         ELSE BfsScan(res, src, snk, vertex, idx + 1, queue, bfs_visited, parents)

\* _bfs(source, sink): found = whether a parent array (truthy) is returned,
\* lap = latest_augmenting_path after the call (reset at line 94 in every case).
Bfs(res, src, snk) ==
    BfsScan(res, src, snk, src, 0, <<>>, {src}, [v \in DOMAIN res |-> None])

\* ------------------------------------------------------------------ Graph.ff_step
Marked(lap) == {c \in (DOMAIN lap) \X (DOMAIN lap) : lap[c[1]][c[2]] = 1}

\* lines 42-46: the minimum residual capacity over the marked cells
Bottleneck(lap, res) == SetMin({res[c[1]][c[2]] : c \in Marked(lap)})

\* mutant: the backward branch decrements the cell itself, not its transpose
UpdateFlowSameCell(G, cf, lap, flow) ==
    [i \in DOMAIN cf |-> [j \in DOMAIN cf[i] |->
        cf[i][j]
        + (IF lap[i][j] = 1 /\ G[i][j] # 0 THEN flow ELSE 0)
        - (IF lap[i][j] = 1 /\ G[i][j] = 0 THEN flow ELSE 0)]]

\* lines 49-56
UpdateFlow(G, cf, lap, flow) ==
    [i \in DOMAIN cf |-> [j \in DOMAIN cf[i] |->
        cf[i][j]
        + (IF lap[i][j] = 1 /\ G[i][j] # 0 THEN flow ELSE 0)
        - (IF lap[j][i] = 1 /\ G[j][i] = 0 THEN flow ELSE 0)]]

\* mutant: the reverse cell is not credited
UpdateResidualNoReverse(res, lap, flow) ==
    [i \in DOMAIN res |-> [j \in DOMAIN res[i] |->
        res[i][j] - (IF lap[i][j] = 1 THEN flow ELSE 0)]]

\* lines 59-63
UpdateResidual(res, lap, flow) ==
    [i \in DOMAIN res |-> [j \in DOMAIN res[i] |->
        res[i][j]
        - (IF lap[i][j] = 1 THEN flow ELSE 0)
        + (IF lap[j][i] = 1 THEN flow ELSE 0)]]

\* mutant: a call that finds no path clears current_flow
StepResultClearsFlow(G, res, cf, src, snk) ==
    LET result == Bfs(res, src, snk) IN
    IF ~result.found
    THEN [res |-> res, cf |-> ZeroMatrix(cf), lap |-> result.lap, ret |-> 0]
    ELSE LET flow == Bottleneck(result.lap, res)
             cf2  == UpdateFlow(G, cf, result.lap, flow)
             res2 == UpdateResidual(res, result.lap, flow)
         IN [res |-> res2, cf |-> cf2, lap |-> result.lap,
             ret |-> RowSum(cf2, src) - RowSum(cf, src)]

\* mutant: the flow difference is taken over the sink's row
StepResultSinkRow(G, res, cf, src, snk) ==
    LET result == Bfs(res, src, snk) IN
    IF ~result.found
    THEN [res |-> res, cf |-> cf, lap |-> result.lap, ret |-> 0]
    ELSE LET flow == Bottleneck(result.lap, res)
             cf2  == UpdateFlow(G, cf, result.lap, flow)
             res2 == UpdateResidual(res, result.lap, flow)
         IN [res |-> res2, cf |-> cf2, lap |-> result.lap,
             ret |-> RowSum(cf2, snk) - RowSum(cf, snk)]

\* ff_step as a function of the object state: the new matrices and the value returned
StepResult(G, res, cf, src, snk) ==
    LET result == Bfs(res, src, snk) IN
    IF ~result.found
    THEN [res |-> res, cf |-> cf, lap |-> result.lap, ret |-> 0]
    ELSE LET flow == Bottleneck(result.lap, res)
             cf2  == UpdateFlow(G, cf, result.lap, flow)
             res2 == UpdateResidual(res, result.lap, flow)
         IN [res |-> res2, cf |-> cf2, lap |-> result.lap,
             ret |-> RowSum(cf2, src) - RowSum(cf, src)]

\* ------------------------------------------------------------------ Graph.ford_fulkerson
\* mutant: max_flow is overwritten by the latest increase, not accumulated
RECURSIVE MaxFlowLoopOverwrite(_, _, _, _, _, _)
MaxFlowLoopOverwrite(G, res, cf, src, snk, max_flow) ==
    LET st == StepResult(G, res, cf, src, snk) IN
    IF st.ret = 0
    THEN [res |-> st.res, cf |-> st.cf, lap |-> st.lap, ret |-> max_flow]
    ELSE MaxFlowLoopOverwrite(G, st.res, st.cf, src, snk, st.ret)

RECURSIVE MaxFlowLoop(_, _, _, _, _, _)
MaxFlowLoop(G, res, cf, src, snk, max_flow) ==
    LET st == StepResult(G, res, cf, src, snk) IN
    IF st.ret = 0
    THEN [res |-> st.res, cf |-> st.cf, lap |-> st.lap, ret |-> max_flow]
    ELSE MaxFlowLoop(G, st.res, st.cf, src, snk, max_flow + st.ret)

\* ------------------------------------------------------------------ inputs
V == 0 .. NumVertices - 1

Cells == V \X V

\* capacity matrices over NumVertices vertices with at most MaxEdges non-zero
\* cells, each capacity in 1..MaxCap
EdgeSets == {E \in SUBSET Cells : Cardinality(E) <= MaxEdges}

SmallGraphs ==
    UNION {
        { [i \in V |-> [j \in V |-> IF <<i, j>> \in E THEN w[<<i, j>>] ELSE 0]] :
            w \in [E -> 1 .. MaxCap] } : E \in EdgeSets }

MatrixOf(n, edges) ==
    [i \in 0 .. n - 1 |-> [j \in 0 .. n - 1 |->
        IF \E e \in edges : e[1] = i /\ e[2] = j
        THEN (CHOOSE e \in edges : e[1] = i /\ e[2] = j)[3]
        ELSE 0]]

\* the classic 6-vertex textbook network
Textbook ==
    MatrixOf(6, {<<0, 1, 16>>, <<0, 2, 13>>, <<1, 3, 12>>, <<2, 1, 4>>, <<3, 2, 9>>,
                 <<2, 4, 14>>, <<4, 3, 7>>, <<3, 5, 20>>, <<4, 5, 4>>})

\* a network with the antiparallel pair 1->2, 2->1
AntiParallel ==
    MatrixOf(6, {<<0, 1, 1>>, <<1, 2, 1>>, <<2, 5, 1>>, <<2, 1, 1>>, <<0, 3, 2>>,
                 <<3, 2, 2>>, <<1, 4, 2>>, <<4, 5, 2>>})

\* a template with one cell replaced by a capacity in 0..MaxCap
Variants(T) ==
    {T} \cup { [T EXCEPT ![c[1]][c[2]] = w] :
                  c \in (DOMAIN T) \X (DOMAIN T), w \in 0 .. MaxCap }

GraphInputs == SmallGraphs \cup Variants(Textbook) \cup Variants(AntiParallel)

\* ------------------------------------------------------------------ Graph.__init__
Construct(G) ==
    /\ graph = G
    /\ residual_graph = G
    /\ latest_augmenting_path = ZeroMatrix(G)
    /\ current_flow = ZeroMatrix(G)

\* no query has been made
NoAnswer == [op |-> "none", from |-> "None", to |-> "None", result |-> <<>>]

\* no JKUMap exists while a flow Graph is exercised
NoMap ==
    /\ distances = <<>>
    /\ paths = <<>>
    /\ mapPc = "none"
    /\ origin = 0
    /\ cur = "None"
    /\ visited = {}
    /\ answer = NoAnswer

Init ==
    /\ NoMap
    /\ \E G \in GraphInputs : Construct(G)
    /\ \E s \in DOMAIN graph, t \in DOMAIN graph : s # t /\ source = s /\ sink = t
    /\ ret = None
    /\ phase = "fresh"
    /\ calls = 0

\* a call of ff_step(s, t)
FFStepCall(s, t) ==
    LET st == StepResult(graph, residual_graph, current_flow, s, t) IN
    /\ residual_graph' = st.res
    /\ current_flow' = st.cf
    /\ latest_augmenting_path' = st.lap
    /\ ret' = st.ret
    /\ source' = s
    /\ sink' = t
    /\ phase' = "stepped"
    /\ UNCHANGED <<graph, mapVars>>

\* a call of ford_fulkerson(s, t)
FordFulkersonCall(s, t) ==
    LET st == MaxFlowLoop(graph, residual_graph, current_flow, s, t, 0) IN
    /\ residual_graph' = st.res
    /\ current_flow' = st.cf
    /\ latest_augmenting_path' = st.lap
    /\ ret' = st.ret
    /\ source' = s
    /\ sink' = t
    /\ phase' = IF phase = "fresh" THEN "done_fresh" ELSE "done"
    /\ UNCHANGED <<graph, mapVars>>

\* calls with the pair fixed at the start
FFStep == FFStepCall(source, sink) /\ UNCHANGED calls

FordFulkerson == FordFulkersonCall(source, sink) /\ UNCHANGED calls

Next == FFStep \/ FordFulkerson

Spec == Init /\ [][Next]_vars

\* ------------------------------------------------------------------ any pair per call
\* Calls may name a different pair each time (source = sink included); with
\* antiparallel cells current_flow then grows without limit, so the number of
\* calls is capped by MaxCalls.
InitAnyPair ==
    /\ NoMap
    /\ \E G \in {Textbook, AntiParallel} : Construct(G)
    /\ source = None
    /\ sink = None
    /\ ret = None
    /\ phase = "fresh"
    /\ calls = 0

FFStepAny ==
    /\ calls < MaxCalls
    /\ \E s \in DOMAIN graph, t \in DOMAIN graph : FFStepCall(s, t)
    /\ calls' = calls + 1

FordFulkersonAny ==
    /\ calls < MaxCalls
    /\ \E s \in DOMAIN graph, t \in DOMAIN graph : FordFulkersonCall(s, t)
    /\ calls' = calls + 1

NextAnyPair == FFStepAny \/ FordFulkersonAny

SpecAnyPair == InitAnyPair /\ [][NextAnyPair]_vars

\* ------------------------------------------------------------------ reference notions
\* vertices reachable from the set R along cells of non-zero residual capacity
RECURSIVE Closure(_, _)
Closure(res, R) ==
    LET R2 == R \cup {v \in DOMAIN res : \E u \in R : res[u][v] # 0} IN
    IF R2 = R THEN R ELSE Closure(res, R2)

HasPath(res, s, t) == t \in Closure(res, {s})

CutCapacity(G, S) ==
    SumOver([c \in S \X ((DOMAIN G) \ S) |-> G[c[1]][c[2]]], S \X ((DOMAIN G) \ S))

\* capacity of a minimum s-t cut of G
MinCut(G, s, t) ==
    SetMin({CutCapacity(G, S \cup {s}) : S \in SUBSET ((DOMAIN G) \ {s, t})})

\* ------------------------------------------------------------------ claims (ff.py)

\* C1: ford_fulkerson(source, sink) on a freshly constructed Graph returns the
\* capacity of a minimum source-sink cut of the original matrix, and 23 on the
\* textbook network with source 0 and sink 5.
C1_MaxFlowIsMinCut ==
    phase = "done_fresh" =>
        /\ ret = MinCut(graph, source, sink)
        /\ (graph = Textbook /\ source = 0 /\ sink = 5) => ret = 23

C1_Witness ==
    /\ phase = "done_fresh"
    /\ graph = Textbook /\ source = 0 /\ sink = 5
    /\ ret = 23

\* C4: after any sequence of ff_step calls with a fixed pair, no cell of
\* current_flow exceeds the cell's original capacity.
C4_FlowWithinCapacity ==
    \A u \in DOMAIN graph : \A v \in DOMAIN graph :
        current_flow[u][v] <= graph[u][v]

\* C5: capacity conservation: residual_graph[u][v] + residual_graph[v][u] equals
\* graph[u][v] + graph[v][u] for every pair of vertices, in every reachable state.
C5_CapacityConservation ==
    \A u \in DOMAIN graph : \A v \in DOMAIN graph :
        residual_graph[u][v] + residual_graph[v][u] = graph[u][v] + graph[v][u]

C5_Witness ==
    /\ calls = MaxCalls
    /\ phase = "stepped"
    /\ ret > 0
    /\ \E u \in DOMAIN graph : \E v \in DOMAIN graph :
          /\ residual_graph[u][v] > graph[u][v]
          /\ graph[u][v] > 0

\* C6: when ford_fulkerson has completed on a freshly constructed Graph, inflow
\* equals outflow at every vertex other than source and sink, and the flow out of
\* the source equals the flow into the sink.
C6_FlowConservation ==
    phase = "done_fresh" =>
        /\ \A w \in (DOMAIN graph) \ {source, sink} :
              ColSum(current_flow, w) = RowSum(current_flow, w)
        /\ RowSum(current_flow, source) = ColSum(current_flow, sink)

C6_Witness ==
    /\ phase = "done_fresh"
    /\ ret >= 2
    /\ \E w \in (DOMAIN graph) \ {source, sink} :
          /\ ColSum(current_flow, w) > 0
          /\ \E x \in DOMAIN graph : current_flow[w][x] > 0 /\ current_flow[x][w] > 0

\* a step of the behaviour that is a call of ff_step
IsFFStepCall == phase' = "stepped"

\* C7 as stated: a call of ff_step in a state without a residual path from source
\* to sink returns 0 and leaves graph, residual_graph, current_flow and
\* latest_augmenting_path as they were.
C7_NoPathNoChange ==
    [][ (IsFFStepCall /\ ~HasPath(residual_graph, source', sink')) =>
            /\ ret' = 0
            /\ UNCHANGED <<graph, residual_graph, current_flow, latest_augmenting_path>>
      ]_vars

\* C7 amended: such a call returns 0, leaves graph, residual_graph and current_flow
\* as they were, and leaves latest_augmenting_path all zero.
C7_NoPathResetsPath ==
    [][ (IsFFStepCall /\ ~HasPath(residual_graph, source', sink')) =>
            /\ ret' = 0
            /\ UNCHANGED <<graph, residual_graph, current_flow>>
            /\ latest_augmenting_path' = ZeroMatrix(graph)
      ]_vars

C7_Witness ==
    /\ phase = "stepped"
    /\ ret = 0
    /\ ~HasPath(residual_graph, source, sink)
    /\ \E u \in DOMAIN graph : \E v \in DOMAIN graph : current_flow[u][v] > 0
    /\ latest_augmenting_path = ZeroMatrix(graph)

\* C8: with a fixed pair on a fresh Graph, every ff_step call that finds an
\* augmenting path returns a strictly positive value, the minimum of the
\* residual capacities (before the update) of the cells marked in
\* latest_augmenting_path, which is also the increase of the flow out of source.
C8_ReturnsBottleneck ==
    [][ (IsFFStepCall /\ HasPath(residual_graph, source, sink)) =>
            /\ ret' > 0
            /\ Marked(latest_augmenting_path') # {}
            /\ \A c \in Marked(latest_augmenting_path') :
                  ret' <= residual_graph[c[1]][c[2]]
            /\ \E c \in Marked(latest_augmenting_path') :
                  ret' = residual_graph[c[1]][c[2]]
            /\ ret' = RowSum(current_flow', source) - RowSum(current_flow, source)
      ]_vars

C8_Witness ==
    /\ phase = "stepped"
    /\ ret >= 1
    /\ \E c \in Marked(latest_augmenting_path) :
          graph[c[1]][c[2]] = 0 /\ current_flow[c[2]][c[1]] < graph[c[2]][c[1]]

\* ================================================================== JKUMap
\* _insert_jku_map: the vertices in insertion order
Locations ==
    <<"Spar", "LIT", "Porter", "Open Lab", "Bank", "KHG", "Parking", "Chat",
      "Bella Casa", "Teichwerk", "Library", "LUI", "SP1", "SP3", "Castle",
      "Papaya", "JKH">>

\* _insert_jku_map: the edges
Edges ==
    {<<"Open Lab", "Porter", 70>>, <<"LIT", "Porter", 80>>, <<"LIT", "Spar", 50>>,
     <<"Spar", "Porter", 103>>, <<"Bank", "Porter", 100>>, <<"Spar", "KHG", 165>>,
     <<"KHG", "Bank", 150>>, <<"KHG", "Parking", 190>>,
     <<"Parking", "Bella Casa", 145>>, <<"Parking", "SP1", 240>>,
     <<"SP1", "SP3", 130>>, <<"SP1", "LUI", 175>>, <<"Teichwerk", "LUI", 135>>,
     <<"LUI", "Library", 90>>, <<"LUI", "Chat", 240>>, <<"Chat", "Library", 160>>,
     <<"Chat", "Bank", 115>>, <<"Papaya", "Castle", 85>>, <<"Papaya", "JKH", 80>>}

\* Graph.vertices
Vertices == {Locations[k] : k \in 1 .. Len(Locations)}

IndexOf(v) == CHOOSE k \in 1 .. Len(Locations) : Locations[k] = v

\* Python's None passed as a vertex
NoVertex == "None"

\* Graph.find_edge(a, b): the edge record joining a and b, in either direction
FindEdge(a, b) ==
    CHOOSE e \in Edges : (e[1] = a /\ e[2] = b) \/ (e[1] = b /\ e[2] = a)

HasEdge(a, b) ==
    \E e \in Edges : (e[1] = a /\ e[2] = b) \/ (e[1] = b /\ e[2] = a)

Weight(a, b) == FindEdge(a, b)[3]

\* Graph.get_adjacent_vertices(v)
GetAdjacentVertices(v) == {u \in Vertices : HasEdge(v, u)}

\* distances are numbers or float("inf")
Infinity == [inf |-> TRUE, val |-> 0]

Fin(n) == [inf |-> FALSE, val |-> n]

\* a + w for a distance a and an edge weight w
Plus(a, w) == IF a.inf THEN Infinity ELSE Fin(a.val + w)

\* a > b for distances
Greater(a, b) ==
    IF a.inf THEN ~b.inf
    ELSE IF b.inf THEN FALSE ELSE a.val > b.val

\* step.py
Step(point, covered_distance) ==
    [point |-> point, covered_distance |-> covered_distance]

\* _initialize_dijkstra
InitialDistances ==
    [vertex \in Vertices |-> [inner_vertex \in Vertices |->
        IF vertex # inner_vertex THEN Infinity ELSE Fin(0)]]

InitialPaths == [vertex \in Vertices |-> [inner_vertex \in Vertices |-> <<>>]]

\* _dijkstra, lines 135-140: the unvisited neighbours of c that get a shorter distance
Improved(c, vis, dist) ==
    {vertex \in GetAdjacentVertices(c) \ vis :
        Greater(dist[vertex], Plus(dist[c], Weight(c, vertex)))}

\* mutant: the new distance forgets distances[cur]
RelaxedDistanceEdgeOnly(c, vertex, dist) == Fin(Weight(c, vertex))

\* lines 141-143
RelaxedDistance(c, vertex, dist) == Plus(dist[c], Weight(c, vertex))

\* mutant: the origin is never recorded in its own path
SeededPathNever(c, dist, path) == path[c]

\* lines 145-146: paths[cur] once a relaxation from cur has succeeded
SeededPath(c, dist, path) ==
    IF Len(path[c]) = 0 THEN <<Step(c, dist[c])>> ELSE path[c]

\* lines 134-149 for one call: the row of distances and of paths after the loop
Relax(c, vis, dist, path) ==
    LET improved == Improved(c, vis \cup {c}, dist)
        dist2 == [vertex \in DOMAIN dist |->
                     IF vertex \in improved
                     THEN RelaxedDistance(c, vertex, dist) ELSE dist[vertex]]
        pathCur == IF improved = {} THEN path[c] ELSE SeededPath(c, dist, path)
        path2 == [vertex \in DOMAIN path |->
                     IF vertex \in improved
                     THEN pathCur \o <<Step(vertex, dist2[vertex])>>
                     ELSE IF vertex = c THEN pathCur ELSE path[vertex]]
    IN [distances |-> dist2, paths |-> path2]

\* lines 152-155: the first unvisited vertex of sorted(distances, key=distances.get),
\* a stable sort of the vertices in insertion order
Unvisited(vis) == Vertices \ vis

NextVertex(vis, dist) ==
    CHOOSE n \in Unvisited(vis) :
        \A m \in Unvisited(vis) :
            \/ Greater(dist[m], dist[n])
            \/ (~Greater(dist[n], dist[m]) /\ IndexOf(n) <= IndexOf(m))

\* ------------------------------------------------------------------ queries
Raised == [raised |-> TRUE, none |-> FALSE, value |-> <<>>]

Returned(value) == [raised |-> FALSE, none |-> FALSE, value |-> value]

ReturnedNone == [raised |-> FALSE, none |-> TRUE, value |-> <<>>]

\* mutant: the path table is read with the endpoints swapped
GetShortestPathFromToSwapped(P, from_vertex, to_vertex) ==
    IF from_vertex = NoVertex \/ to_vertex = NoVertex THEN Raised
    ELSE IF from_vertex = to_vertex THEN Raised
    ELSE LET result == P[to_vertex][from_vertex] IN
         IF Len(result) > 0 THEN Returned(result) ELSE ReturnedNone

GetShortestPathFromTo(P, from_vertex, to_vertex) ==
    IF from_vertex = NoVertex \/ to_vertex = NoVertex THEN Raised
    ELSE IF from_vertex = to_vertex THEN Raised
    ELSE LET result == P[from_vertex][to_vertex] IN
         IF Len(result) > 0 THEN Returned(result) ELSE ReturnedNone

\* mutant: the origin's own Step is counted
GetStepsForShortestPathsFromNoMinus(P, from_vertex) ==
    IF from_vertex = NoVertex THEN Raised
    ELSE Returned([vertex \in Vertices |-> Len(P[from_vertex][vertex])])

GetStepsForShortestPathsFrom(P, from_vertex) ==
    IF from_vertex = NoVertex THEN Raised
    ELSE Returned([vertex \in Vertices |-> Len(P[from_vertex][vertex]) - 1])

GetShortestDistancesFrom(D, from_vertex) ==
    IF from_vertex = NoVertex THEN Raised
    ELSE Returned([key \in Vertices |->
            IF D[from_vertex][key] # Infinity THEN D[from_vertex][key].val ELSE -1])

\* ------------------------------------------------------------------ JKUMap.__init__
\* no flow Graph exists while the map is exercised
NoFlowGraph ==
    /\ graph = <<>>
    /\ residual_graph = <<>>
    /\ latest_augmenting_path = <<>>
    /\ current_flow = <<>>
    /\ source = None
    /\ sink = None
    /\ ret = None
    /\ phase = "none"
    /\ calls = 0

\* __init__ up to the first _dijkstra call
InitMap ==
    /\ NoFlowGraph
    /\ distances = InitialDistances
    /\ paths = InitialPaths
    /\ mapPc = "dijkstra"
    /\ origin = 1
    /\ cur = Locations[1]
    /\ visited = {}
    /\ answer = NoAnswer

\* one call _dijkstra(cur, visited, distances[origin], paths[origin]); when it
\* returns, __init__ stores the row and goes on with the next origin
Dijkstra ==
    /\ mapPc = "dijkstra"
    /\ LET o == Locations[origin]
           row == Relax(cur, visited, distances[o], paths[o])
           vis == visited \cup {cur}
       IN /\ distances' = [distances EXCEPT ![o] = row.distances]
          /\ paths' = [paths EXCEPT ![o] = row.paths]
          /\ IF Unvisited(vis) # {}
             THEN /\ cur' = NextVertex(vis, row.distances)
                  /\ visited' = vis
                  /\ UNCHANGED <<origin, mapPc>>
             ELSE IF origin < Len(Locations)
                  THEN /\ origin' = origin + 1
                       /\ cur' = Locations[origin + 1]
                       /\ visited' = {}
                       /\ UNCHANGED mapPc
                  ELSE /\ mapPc' = "ready"
                       /\ cur' = NoVertex
                       /\ visited' = {}
                       /\ UNCHANGED origin
    /\ UNCHANGED <<answer, flowVars>>

QueryShortestPathFromTo ==
    /\ mapPc = "ready"
    /\ \E a \in Vertices \cup {NoVertex}, b \in Vertices \cup {NoVertex} :
          answer' = [op |-> "get_shortest_path_from_to", from |-> a, to |-> b,
                     result |-> GetShortestPathFromTo(paths, a, b)]
    /\ UNCHANGED <<distances, paths, mapPc, origin, cur, visited, flowVars>>

QueryStepsForShortestPathsFrom ==
    /\ mapPc = "ready"
    /\ \E a \in Vertices \cup {NoVertex} :
          answer' = [op |-> "get_steps_for_shortest_paths_from", from |-> a,
                     to |-> NoVertex,
                     result |-> GetStepsForShortestPathsFrom(paths, a)]
    /\ UNCHANGED <<distances, paths, mapPc, origin, cur, visited, flowVars>>

QueryShortestDistancesFrom ==
    /\ mapPc = "ready"
    /\ \E a \in Vertices \cup {NoVertex} :
          answer' = [op |-> "get_shortest_distances_from", from |-> a,
                     to |-> NoVertex,
                     result |-> GetShortestDistancesFrom(distances, a)]
    /\ UNCHANGED <<distances, paths, mapPc, origin, cur, visited, flowVars>>

NextMap ==
    \/ Dijkstra
    \/ QueryShortestPathFromTo
    \/ QueryStepsForShortestPathsFrom
    \/ QueryShortestDistancesFrom

SpecMap == InitMap /\ [][NextMap]_vars

\* ------------------------------------------------------------------ reference notions
\* the vertices joined to the set R by a sequence of edges
RECURSIVE Connected(_)
Connected(R) ==
    LET R2 == R \cup {u \in Vertices : \E v \in R : HasEdge(v, u)} IN
    IF R2 = R THEN R ELSE Connected(R2)

\* the total weights of the simple paths from a to b that avoid the set `avoid`
RECURSIVE PathWeights(_, _, _)
PathWeights(a, b, avoid) ==
    IF a = b THEN {0}
    ELSE UNION { {Weight(a, c) + w : w \in PathWeights(c, b, avoid \cup {a})} :
                   c \in GetAdjacentVertices(a) \ (avoid \cup {a}) }

\* minimum total weight over all undirected paths from a to b, -1 if there is none
ShortestDistance(a, b) ==
    LET weights == PathWeights(a, b, {}) IN
    IF weights = {} THEN -1 ELSE SetMin(weights)

\* ------------------------------------------------------------------ claims (jku_map.py)

\* C2: get_shortest_distances_from(a)[b] is the minimum total edge weight over
\* all undirected paths from a to b (0 for b = a) and -1 exactly when no path
\* exists; from Open Lab it is 70 for Porter and 150 for LIT.
C2_ShortestDistances ==
    (answer.op = "get_shortest_distances_from" /\ answer.from # NoVertex) =>
        /\ ~answer.result.raised
        /\ \A b \in Vertices :
              /\ answer.result.value[b] = ShortestDistance(answer.from, b)
              /\ (answer.result.value[b] = -1) <=> (b \notin Connected({answer.from}))
        /\ answer.result.value[answer.from] = 0
        /\ answer.from = "Open Lab" =>
              (answer.result.value["Porter"] = 70 /\ answer.result.value["LIT"] = 150)

C2_Witness ==
    /\ answer.op = "get_shortest_distances_from"
    /\ answer.from = "Open Lab"
    /\ answer.result.value["Porter"] = 70
    /\ answer.result.value["LIT"] = 150
    /\ answer.result.value["Castle"] = -1

\* C3: for distinct a, b with b reachable from a, get_shortest_path_from_to(a, b)
\* is a sequence of Steps from (a, 0) to (b, shortest distance) whose consecutive
\* Steps are joined by an edge weighing the difference of their covered
\* distances; Teichwerk to Library is Teichwerk(0), LUI(135), Library(225).
C3_ShortestPath ==
    (/\ answer.op = "get_shortest_path_from_to"
     /\ answer.from # NoVertex /\ answer.to # NoVertex
     /\ answer.from # answer.to
     /\ answer.to \in Connected({answer.from})) =>
        /\ ~answer.result.raised
        /\ ~answer.result.none
        /\ LET p == answer.result.value IN
           /\ Len(p) >= 2
           /\ p[1] = Step(answer.from, Fin(0))
           /\ p[Len(p)] = Step(answer.to, Fin(ShortestDistance(answer.from, answer.to)))
           /\ \A k \in 1 .. Len(p) - 1 :
                 /\ HasEdge(p[k].point, p[k + 1].point)
                 /\ ~p[k].covered_distance.inf /\ ~p[k + 1].covered_distance.inf
                 /\ Weight(p[k].point, p[k + 1].point) =
                        p[k + 1].covered_distance.val - p[k].covered_distance.val
           /\ (answer.from = "Teichwerk" /\ answer.to = "Library") =>
                 p = <<Step("Teichwerk", Fin(0)), Step("LUI", Fin(135)),
                       Step("Library", Fin(225))>>

C3_Witness ==
    /\ answer.op = "get_shortest_path_from_to"
    /\ answer.from = "Teichwerk" /\ answer.to = "Library"
    /\ ~answer.result.raised /\ ~answer.result.none
    /\ Len(answer.result.value) = 3
    /\ answer.result.value[2].point = "LUI"

\* C9: once the map is constructed, for all v, w the step count from v to w is
\* -1 if and only if the reported distance from v to w is -1.
C9_UnreachableIffUnreachable ==
    mapPc = "ready" =>
        \A v \in Vertices : \A w \in Vertices :
            (GetStepsForShortestPathsFrom(paths, v).value[w] = -1)
                <=> (GetShortestDistancesFrom(distances, v).value[w] = -1)

C9_Witness ==
    /\ mapPc = "ready"
    /\ answer.op = "get_steps_for_shortest_paths_from"
    /\ answer.from = "Spar"
    /\ answer.result.value["Castle"] = -1
    /\ answer.result.value["Spar"] = 0
    /\ answer.result.value["Bank"] = 2
    /\ GetShortestDistancesFrom(distances, "Spar").value["Castle"] = -1

\* C10 as stated: after construction paths[v][v] is the empty sequence and
\* distances[v][v] is 0, for every vertex v.
C10_OwnPathEmpty ==
    mapPc = "ready" =>
        \A v \in Vertices : paths[v][v] = <<>> /\ distances[v][v] = Fin(0)

\* C10 amended: after construction paths[v][v] is the one-Step sequence
\* <<Step(v, 0)>> and distances[v][v] is 0, for every vertex v of the campus graph.
C10_OwnPathIsOrigin ==
    mapPc = "ready" =>
        \A v \in Vertices :
            paths[v][v] = <<Step(v, Fin(0))>> /\ distances[v][v] = Fin(0)

C10_Witness ==
    /\ mapPc = "ready"
    /\ \A v \in Vertices : Len(paths[v][v]) = 1 /\ paths[v][v][1].point = v

====
